---- MODULE Spec2Model ----
(***************************************************************************)
(* Model of segregate.py: the splitting of one DOCX body into one file per *)
(* Unit / Chapter / Section.                                               *)
(*                                                                         *)
(* A document body is a sequence of blocks, each a paragraph (w:p) or a    *)
(* table (w:tbl).  A paragraph's text is the sequence of its lines (the    *)
(* parts python-docx separates by "\n" for a w:br).  Positions, as in the  *)
(* source, are 0-based indices into doc.paragraphs.                        *)
(***************************************************************************)
EXTENDS Integers, Sequences, FiniteSets, TLC

\* Longest document body (in blocks) that is explored.
MaxLen == 5

\* segregate.py:25
SECTIONS_TO_SKIP == {"E"}

\* Python's None, for a text and for an index.
None == "None"
NoIndex == 0 - 1

-----------------------------------------------------------------------------
(* Texts and the regular expressions applied to them *)

\* The paragraph texts documents are built from, before strip().
ParaTexts ==
    { <<"content">>,
      <<"Unit I: Algebra">>,
      <<"Unit II: Calculus">>,
      <<"Unit VII: Extra">>,
      <<"Chapter 1: Basics">>,
      <<"Chapter 2: Sets", "A. Summary & Concept Map">>,
      <<"A. Summary text">>,
      <<"E. Question Bank">> }

Para(text) == [kind |-> "p", text |-> text]
Table == [kind |-> "tbl", text |-> <<>>]

Blocks == {Para(t) : t \in ParaTexts} \cup {Table}

\* The bodies explored: every sequence of at most MaxLen blocks.
Bodies == UNION {[1..n -> Blocks] : n \in 0..MaxLen}

\* re.match(r'^(Unit\s+[IVXLC]+:\s+.+)$', line) and the numeral that
\* re.match(r'Unit\s+([IVXLC]+):', line) captures; "" when there is no match.
UnitNumeral(line) ==
    CASE line = "Unit I: Algebra" -> "I"
      [] line = "Unit II: Calculus" -> "II"
      [] line = "Unit VII: Extra" -> "VII"
      [] OTHER -> ""

\* The first line of a match of r'^(Chapter\s*[\d:].+?)(?:\n(.+))?$'.
ChapterLine(line) == line \in {"Chapter 1: Basics", "Chapter 2: Sets"}

\* re.match(r'^([A-G])\.\s', line): the letter, "" when there is no match.
SectionLetter(line) ==
    CASE line = "A. Summary & Concept Map" -> "A"
      [] line = "A. Summary text" -> "A"
      [] line = "E. Question Bank" -> "E"
      [] OTHER -> ""

\* line.startswith('Chapter')
StartsWithChapter(line) == line \in {"Chapter 1: Basics", "Chapter 2: Sets"}

RECURSIVE LStrip(_)
LStrip(t) == IF t # <<>> /\ Head(t) = "" THEN LStrip(Tail(t)) ELSE t

RECURSIVE RStrip(_)
RStrip(t) ==
    IF t # <<>> /\ t[Len(t)] = "" THEN RStrip(SubSeq(t, 1, Len(t) - 1)) ELSE t

\* str.strip() on a text: blank lines at either end are whitespace.
Strip(t) == RStrip(LStrip(t))

-----------------------------------------------------------------------------
(* python-docx: doc.paragraphs *)

RECURSIVE ParagraphIndices(_, _)
ParagraphIndices(body, j) ==
    IF j > Len(body) THEN <<>>
    ELSE (IF body[j].kind = "p" THEN <<j - 1>> ELSE <<>>)
         \o ParagraphIndices(body, j + 1)

\* doc.paragraphs: the w:p children of the body in order, each given by its
\* 0-based place among the body's children; tables are not among them.
Paragraphs(body) == ParagraphIndices(body, 1)

\* Document(INPUT_FILE): the body and the paragraphs python-docx lists.
Document(body) == [body |-> body, paragraphs |-> Paragraphs(body)]

\* d.paragraphs[i].text.strip()
ParaText(d, i) == Strip(d.body[d.paragraphs[i + 1] + 1].text)

-----------------------------------------------------------------------------
(* parse_structure *)

Marker(pos, mtype, value, inline) ==
    [pos |-> pos, mtype |-> mtype, value |-> value, inline |-> inline]

\* The markers one paragraph contributes (the body of the first loop).
ScanPara(i, txt) ==
    IF txt = <<>> THEN <<>>
    ELSE IF Len(txt) = 1 /\ UnitNumeral(txt[1]) # ""
    THEN <<Marker(i, "unit", txt[1], FALSE)>>
    ELSE IF ChapterLine(txt[1])
    THEN <<Marker(i, "chapter", txt[1], FALSE)>>
         \o (IF Len(txt) > 1
             THEN LET sec_text == Strip(Tail(txt))
                  IN  IF SectionLetter(sec_text[1]) # ""
                      THEN <<Marker(i, "section", SectionLetter(sec_text[1]), TRUE)>>
                      ELSE <<>>
             ELSE <<>>)
    ELSE IF SectionLetter(txt[1]) # ""
    THEN <<Marker(i, "section", SectionLetter(txt[1]), FALSE)>>
    ELSE <<>>

RECURSIVE ScanFrom(_, _)
ScanFrom(d, i) ==
    IF i >= Len(d.paragraphs) THEN <<>>
    ELSE ScanPara(i, ParaText(d, i)) \o ScanFrom(d, i + 1)

\* markers, after the first loop.
ScanMarkers(d) == ScanFrom(d, 0)

\* roman_to_int.get(roman, 0)
RomanToInt(roman) ==
    CASE roman = "I" -> 1
      [] roman = "II" -> 2
      [] roman = "III" -> 3
      [] roman = "IV" -> 4
      [] roman = "V" -> 5
      [] roman = "VI" -> 6
      [] OTHER -> 0

\* The locals of the second loop before its first iteration.
InitGroupState ==
    [entries |-> <<>>,
     current_unit |-> None,
     current_unit_num |-> 0,
     current_chapter |-> None,
     current_chapter_num |-> 0,
     unit_chapter_counter |-> <<>>]

\* EndPara with the "- 1" forgotten: the range runs onto the next marker.
EndParaOntoNextMarker(markers, idx, total) ==
    IF idx < Len(markers) THEN markers[idx + 1].pos ELSE total - 1

\* EndPara without the look at the next marker: every range runs to the end.
EndParaToDocEnd(markers, idx, total) == total - 1

\* End = next marker's paragraph - 1, or end of doc.  idx is 1-based here.
EndPara(markers, idx, total) ==
    IF idx < Len(markers) THEN markers[idx + 1].pos - 1 ELSE total - 1

UnitStep(st, marker) ==
    IF UnitNumeral(marker.value) # ""
    THEN LET n == RomanToInt(UnitNumeral(marker.value))
         IN  [st EXCEPT !.current_unit = marker.value,
                        !.current_unit_num = n,
                        !.unit_chapter_counter =
                            IF n \in DOMAIN @ THEN @ ELSE (n :> 0) @@ @]
    ELSE st

ChapterStep(st, marker) ==
    LET n == st.current_unit_num
        st1 == IF n > 0
               THEN [st EXCEPT !.unit_chapter_counter[n] = @ + 1,
                               !.current_chapter_num =
                                   st.unit_chapter_counter[n] + 1]
               ELSE st
    IN  [st1 EXCEPT !.current_chapter = marker.value]

\* SectionStep testing only current_unit: a Section before any Chapter is kept.
SectionStepUnitOnly(st, markers, idx, total) ==
    LET marker == markers[idx]
    IN  IF st.current_unit = None
        THEN st
        ELSE [st EXCEPT !.entries = Append(@,
                 [unit |-> st.current_unit,
                  unit_num |-> st.current_unit_num,
                  chapter |-> st.current_chapter,
                  chapter_num |-> st.current_chapter_num,
                  section |-> marker.value,
                  start_para |-> marker.pos,
                  end_para |-> EndPara(markers, idx, total),
                  is_inline |-> marker.inline])]

SectionStep(st, markers, idx, total) ==
    LET marker == markers[idx]
    IN  IF st.current_unit = None \/ st.current_chapter = None
        THEN st
        ELSE [st EXCEPT !.entries = Append(@,
                 [unit |-> st.current_unit,
                  unit_num |-> st.current_unit_num,
                  chapter |-> st.current_chapter,
                  chapter_num |-> st.current_chapter_num,
                  section |-> marker.value,
                  start_para |-> marker.pos,
                  end_para |-> EndPara(markers, idx, total),
                  is_inline |-> marker.inline])]

\* One iteration of the second loop.
GroupStep(st, markers, idx, total) ==
    CASE markers[idx].mtype = "unit" -> UnitStep(st, markers[idx])
      [] markers[idx].mtype = "chapter" -> ChapterStep(st, markers[idx])
      [] markers[idx].mtype = "section" -> SectionStep(st, markers, idx, total)

\* The locals of the second loop after its iterations idx .. Len(markers).
RECURSIVE GroupFrom(_, _, _, _)
GroupFrom(st, markers, idx, total) ==
    IF idx > Len(markers) THEN st
    ELSE GroupFrom(GroupStep(st, markers, idx, total), markers, idx + 1, total)

\* The entries the second loop makes of a marker timeline.
GroupMarkers(markers, total) ==
    GroupFrom(InitGroupState, markers, 1, total).entries

\* parse_structure(doc)
ParseStructure(d) == GroupMarkers(ScanMarkers(d), Len(d.paragraphs))

-----------------------------------------------------------------------------
(* create_section_file *)

\* copy.deepcopy(source_paras[i]._element): the copy of a body child.
Clone(d, i) ==
    LET j == d.paragraphs[i + 1]
    IN  [op |-> "clone", src |-> j, text |-> d.body[j + 1].text]

\* A chapter paragraph stripped to its pPr, with the three runs appended.
Synth(d, i, text) ==
    [op |-> "synth", src |-> d.paragraphs[i + 1], text |-> text]

\* _make_bold_para(text)
MakeBoldPara(text) == [op |-> "bold", src |-> NoIndex, text |-> text]

RECURSIVE FindUnitFrom(_, _, _)
FindUnitFrom(d, unit_text, i) ==
    IF i >= Len(d.paragraphs) THEN NoIndex
    ELSE IF ParaText(d, i) = <<unit_text>> THEN i
    ELSE FindUnitFrom(d, unit_text, i + 1)

\* find_unit_para(doc, unit_text)
FindUnitPara(d, unit_text) == FindUnitFrom(d, unit_text, 0)

Max(a, b) == IF a >= b THEN a ELSE b

RECURSIVE FindChapterDown(_, _, _)
FindChapterDown(d, i, stop) ==
    IF i <= stop THEN NoIndex
    ELSE LET txt == ParaText(d, i)
         IN  IF txt # <<>> /\ StartsWithChapter(txt[1]) THEN i
             ELSE FindChapterDown(d, i - 1, stop)

\* find_chapter_para(doc, entry)
FindChapterPara(d, entry) ==
    IF entry.is_inline THEN entry.start_para
    ELSE FindChapterDown(d, entry.start_para - 1,
                         Max(entry.start_para - 10, 0 - 1))

\* get_actual_section_title(doc, entry); a text, or None.
GetActualSectionTitle(d, entry) ==
    LET txt == ParaText(d, entry.start_para)
    IN  IF entry.is_inline
        THEN (IF Len(txt) > 1 THEN Strip(Tail(txt)) ELSE None)
        ELSE txt

\* Step 1: the Unit header paragraph.
UnitHeading(d, entry) ==
    LET unit_para_idx == FindUnitPara(d, entry.unit)
    IN  IF unit_para_idx # NoIndex
        THEN Clone(d, unit_para_idx)
        ELSE MakeBoldPara(<<entry.unit>>)

\* ChapterHeading without the is_inline branch: the heading is always rebuilt.
ChapterHeadingAlwaysSynth(d, entry) ==
    LET chapter_para_idx == FindChapterPara(d, entry)
        sec_title == GetActualSectionTitle(d, entry)
        title == IF sec_title = None \/ sec_title = <<>>
                 THEN <<entry.section \o ".">>
                 ELSE sec_title
    IN  IF chapter_para_idx # NoIndex
        THEN Synth(d, chapter_para_idx, <<entry.chapter>> \o title)
        ELSE MakeBoldPara(<<entry.chapter>> \o
                          (IF sec_title = None THEN <<"None">> ELSE sec_title))

\* Step 2: the Chapter + Section header paragraph.
ChapterHeading(d, entry) ==
    LET chapter_para_idx == FindChapterPara(d, entry)
        sec_title == GetActualSectionTitle(d, entry)
        title == IF sec_title = None \/ sec_title = <<>>
                 THEN <<entry.section \o ".">>
                 ELSE sec_title
    IN  IF chapter_para_idx # NoIndex
        THEN IF entry.is_inline
             THEN Clone(d, chapter_para_idx)
             ELSE Synth(d, chapter_para_idx, <<entry.chapter>> \o title)
        ELSE MakeBoldPara(<<entry.chapter>> \o
                          (IF sec_title = None THEN <<"None">> ELSE sec_title))

\* ContentStart without the "+ 1": the marker paragraph is copied as content.
ContentStartAtMarker(entry) == entry.start_para

\* content_start = start + 1
ContentStart(entry) == entry.start_para + 1

RECURSIVE CopyFrom(_, _, _)
CopyFrom(d, i, end) ==
    IF i > end THEN <<>>
    ELSE (IF i < Len(d.paragraphs) THEN <<Clone(d, i)>> ELSE <<>>)
         \o CopyFrom(d, i + 1, end)

\* Step 3: the content paragraphs.
ContentCopy(d, entry) == CopyFrom(d, ContentStart(entry), entry.end_para)

\* The children of the new body before its sectPr, as saved.
CreateSectionFile(d, entry) ==
    <<UnitHeading(d, entry), ChapterHeading(d, entry)>>
    \o ContentCopy(d, entry)

-----------------------------------------------------------------------------
(* main *)

\* ROMAN_MAP.get(unit_num, str(unit_num))
GetUnitRoman(unit_num) ==
    CASE unit_num = 1 -> "I"
      [] unit_num = 2 -> "II"
      [] unit_num = 3 -> "III"
      [] unit_num = 4 -> "IV"
      [] unit_num = 5 -> "V"
      [] unit_num = 6 -> "VI"
      [] OTHER -> ToString(unit_num)

\* f"Unit {unit_roman} Ch {entry['chapter_num']} Sec {entry['section']}.docx"
Filename(entry) ==
    <<"Unit", GetUnitRoman(entry.unit_num), "Ch", entry.chapter_num,
      "Sec", entry.section, ".docx">>

\* KeepEntry without the skip-set: every entry is kept.
KeepEntryAll(e) == TRUE

\* [e for e in entries if e['section'] not in SECTIONS_TO_SKIP]
KeepEntry(e) == e.section \notin SECTIONS_TO_SKIP

VARIABLES
    doc,            \* the loaded document
    pc,             \* where main is
    markers,        \* the marker timeline parse_structure built
    entries,        \* main's entries
    i,              \* index of the creation loop (0-based)
    files,          \* the output directory: filename -> saved body
    created_files   \* main's created_files

vars == <<doc, pc, markers, entries, i, files, created_files>>

Init ==
    /\ doc \in {Document(b) : b \in Bodies}
    /\ pc = "loaded"
    /\ markers = <<>>
    /\ entries = <<>>
    /\ i = 0
    /\ files = <<>>
    /\ created_files = <<>>

\* entries = parse_structure(doc)
Parse ==
    /\ pc = "loaded"
    /\ markers' = ScanMarkers(doc)
    /\ entries' = GroupMarkers(markers', Len(doc.paragraphs))
    /\ pc' = "parsed"
    /\ UNCHANGED <<doc, i, files, created_files>>

\* entries = [e for e in entries if ...]
SkipSections ==
    /\ pc = "parsed"
    /\ entries' = SelectSeq(entries, KeepEntry)
    /\ i' = 0
    /\ pc' = "creating"
    /\ UNCHANGED <<doc, markers, files, created_files>>

\* One iteration of the creation loop.
CreateFile ==
    /\ pc = "creating"
    /\ i < Len(entries)
    /\ LET entry == entries[i + 1]
           filename == Filename(entry)
       IN  /\ files' = (filename :> CreateSectionFile(doc, entry)) @@ files
           /\ created_files' = Append(created_files, filename)
    /\ i' = i + 1
    /\ UNCHANGED <<doc, pc, markers, entries>>

\* The loop is over; the summary is printed.
Finish ==
    /\ pc = "creating"
    /\ i >= Len(entries)
    /\ pc' = "done"
    /\ UNCHANGED <<doc, markers, entries, i, files, created_files>>

Next == Parse \/ SkipSections \/ CreateFile \/ Finish

Spec == Init /\ [][Next]_vars

-----------------------------------------------------------------------------
(* Vocabulary of the properties, read off the document itself *)

Total == Len(doc.paragraphs)
MarkerPositions == {markers[k].pos : k \in DOMAIN markers}

\* The body child (0-based) that paragraph p is.
BodyIndex(p) == doc.paragraphs[p + 1]

SetMin(S) == CHOOSE x \in S : \A y \in S : x <= y

LaterMarkers(p) == {q \in MarkerPositions : q > p}

\* The position just before the first marker after paragraph p, or the last
\* paragraph when no marker follows.
ExpectedEnd(p) ==
    IF LaterMarkers(p) # {} THEN SetMin(LaterMarkers(p)) - 1 ELSE Total - 1

\* The content range of an entry, as a set of paragraph positions.
Range(e) == (e.start_para + 1)..e.end_para

\* The entry the creation loop has just materialized, and its saved file.
JustCreated == entries[Len(created_files)]
JustSaved == files[created_files[Len(created_files)]]

\* The saved blocks after the two heading blocks.
ContentOf(f) == SubSeq(f, 3, Len(f))

\* The file holds, after its headings, exactly the paragraphs of Range(e),
\* in source order, each once.
HoldsExactlyRange(f, e) ==
    /\ Len(f) = 2 + (e.end_para - e.start_para)
    /\ \A k \in 1..(e.end_para - e.start_para) :
          /\ f[2 + k].op = "clone"
          /\ f[2 + k].src = BodyIndex(e.start_para + k)
          /\ f[2 + k].text = doc.body[BodyIndex(e.start_para + k) + 1].text

-----------------------------------------------------------------------------
\* C1: every entry ends at the position just before the next marker of any
\* kind, or at the last paragraph when no marker follows, and the file
\* created for it holds, after its two heading blocks, exactly the source
\* paragraphs start+1 .. end, in source order, each once.
C1_EndAndContent ==
    /\ pc = "parsed" =>
          \A k \in DOMAIN entries :
              entries[k].end_para = ExpectedEnd(entries[k].start_para)
    /\ created_files # <<>> => HoldsExactlyRange(JustSaved, JustCreated)

\* A file was just created for a section with content that is bounded by a
\* following marker.
C1_Witness ==
    /\ created_files # <<>>
    /\ JustCreated.end_para > JustCreated.start_para
    /\ JustCreated.end_para < Total - 1
    /\ Len(JustSaved) > 2

\* C2: the content ranges of two different entries returned by
\* parse_structure (entries of skipped letters included) are disjoint, and
\* so are the blocks copied for them.
C2_RangesDisjoint ==
    pc = "parsed" =>
        \A a, b \in DOMAIN entries :
            a # b =>
              /\ Range(entries[a]) \cap Range(entries[b]) = {}
              /\ LET fa == ContentCopy(doc, entries[a])
                     fb == ContentCopy(doc, entries[b])
                 IN  {fa[k].src : k \in DOMAIN fa}
                        \cap {fb[k].src : k \in DOMAIN fb} = {}

\* parse_structure returned an inline entry and an entry of a skipped
\* letter, both with content.
C2_Witness ==
    /\ pc = "parsed"
    /\ \E a, b \in DOMAIN entries :
          /\ entries[a].is_inline
          /\ entries[b].section \in SECTIONS_TO_SKIP
          /\ Range(entries[a]) # {}
          /\ Range(entries[b]) # {}

\* The body children (0-based) that are tables and lie between the marker
\* paragraph of entry e and the next marker paragraph (or the end of the body).
TablesOf(e) ==
    LET first == BodyIndex(e.start_para)
        last == IF LaterMarkers(e.start_para) # {}
                THEN BodyIndex(SetMin(LaterMarkers(e.start_para))) - 1
                ELSE Len(doc.body) - 1
    IN  {t \in first..last : doc.body[t + 1].kind = "tbl"}

\* C3: every table between a Section marker and the next marker (or the end
\* of the document) is copied into that Section's output.
C3_TablesCopied ==
    created_files # <<>> =>
        \A t \in TablesOf(JustCreated) :
            \E k \in DOMAIN JustSaved : JustSaved[k].src = t

\* C4: after the run there is one output file per entry that was not
\* skipped: no two entries share a name and nothing is overwritten.
C4_OneFilePerEntry ==
    pc = "done" => Cardinality(DOMAIN files) = Len(entries)

-----------------------------------------------------------------------------
\* Indices of the timeline's markers of one kind before index idx.
Before(idx, mtype) == {k \in 1..(idx - 1) : markers[k].mtype = mtype}

SetMax(S) == CHOOSE x \in S : \A y \in S : x >= y

\* The Section markers with a Unit marker and a Chapter marker before them.
WithContext ==
    {k \in DOMAIN markers :
        /\ markers[k].mtype = "section"
        /\ Before(k, "unit") # {}
        /\ Before(k, "chapter") # {}}

\* The timeline index of the marker an entry was made from.
MarkerOf(e) ==
    CHOOSE k \in DOMAIN markers :
        markers[k].mtype = "section" /\ markers[k].pos = e.start_para

\* The unit number of the last Unit marker before timeline index idx.
UnitNumAt(idx) ==
    IF Before(idx, "unit") = {} THEN 0
    ELSE RomanToInt(UnitNumeral(markers[SetMax(Before(idx, "unit"))].value))

-----------------------------------------------------------------------------
\* The Section markers whose letter is in the skip-set.
SkippedMarkers ==
    {k \in DOMAIN markers :
        markers[k].mtype = "section" /\ markers[k].value \in SECTIONS_TO_SKIP}

\* The paragraphs between a marker and the next one.
ContentAfter(k) == (markers[k].pos + 1)..ExpectedEnd(markers[k].pos)

\* C6: no file is created for a letter of the skip-set; the entry before a
\* skipped Section ends just before the skipped marker; the skipped
\* Section's content is in no output.
C6_SkipSet ==
    /\ \A fn \in DOMAIN files : fn[6] \notin SECTIONS_TO_SKIP
    /\ pc = "parsed" =>
          \A k \in DOMAIN entries, s \in SkippedMarkers :
              s = MarkerOf(entries[k]) + 1 =>
                  entries[k].end_para = markers[s].pos - 1
    /\ \A s \in SkippedMarkers :
          \A p \in ContentAfter(s), fn \in DOMAIN files :
              \A k \in DOMAIN files[fn] : files[fn][k].src # BodyIndex(p)

\* The run is over; a file exists for a Section directly followed by a
\* skipped Section that has context and content.
C6_Witness ==
    /\ pc = "done"
    /\ files # <<>>
    /\ \E k \in DOMAIN entries, s \in SkippedMarkers \cap WithContext :
          /\ s = MarkerOf(entries[k]) + 1
          /\ ContentAfter(s) # {}

-----------------------------------------------------------------------------
\* C7: every paragraph after the first entry's marker and not past the last
\* entry's range, that is not itself a marker, is in the range of some entry.
C7_InteriorCovered ==
    (pc = "parsed" /\ entries # <<>>) =>
        \A p \in (entries[1].start_para + 1)..(entries[Len(entries)].end_para) :
            p \notin MarkerPositions =>
                \E k \in DOMAIN entries : p \in Range(entries[k])

-----------------------------------------------------------------------------
\* C8 as claimed: startBlock <= endBlock + 1, and the range is empty only
\* when the paragraph after the Section marker is a marker.
C8_EmptyOnlyAdjacent ==
    pc = "parsed" =>
        \A k \in DOMAIN entries :
            /\ entries[k].start_para + 1 <= entries[k].end_para + 1
            /\ Range(entries[k]) = {} =>
                  entries[k].start_para + 1 \in MarkerPositions

\* C8 as amended: startBlock <= endBlock + 1; the range is empty only when
\* the paragraph after the Section marker is a marker or the Section marker
\* is the last paragraph; the file of an empty range is its two headings.
C8_EmptyRange ==
    /\ pc = "parsed" =>
          \A k \in DOMAIN entries :
              /\ entries[k].start_para + 1 <= entries[k].end_para + 1
              /\ Range(entries[k]) = {} =>
                    \/ entries[k].start_para + 1 \in MarkerPositions
                    \/ entries[k].start_para = Total - 1
    /\ (created_files # <<>> /\ Range(JustCreated) = {}) =>
          Len(JustSaved) = 2

\* A heading-only file was just created for a Section directly followed by
\* a marker, in a document that goes on.
C8_Witness ==
    /\ created_files # <<>>
    /\ Range(JustCreated) = {}
    /\ JustCreated.start_para + 1 \in MarkerPositions
    /\ Len(JustSaved) = 2

-----------------------------------------------------------------------------
InlineText == <<"Chapter 2: Sets", "A. Summary & Concept Map">>

\* The markers of the timeline at one position, in timeline order.
RECURSIVE MarkersAtFrom(_, _)
MarkersAtFrom(p, k) ==
    IF k > Len(markers) THEN <<>>
    ELSE (IF markers[k].pos = p THEN <<markers[k]>> ELSE <<>>)
         \o MarkersAtFrom(p, k + 1)

\* C9: a 'Chapter 2: Sets\nA. Summary & Concept Map' paragraph yields the
\* Chapter marker and then one inline Section marker, both at its position;
\* the file of the inline Section has a copy of the whole paragraph as its
\* second heading, and its content starts after that paragraph.
C9_InlineSection ==
    /\ pc = "parsed" =>
          /\ \A p \in 0..(Total - 1) :
                ParaText(doc, p) = InlineText =>
                    MarkersAtFrom(p, 1) =
                        << [pos |-> p, mtype |-> "chapter",
                            value |-> "Chapter 2: Sets", inline |-> FALSE],
                           [pos |-> p, mtype |-> "section",
                            value |-> "A", inline |-> TRUE] >>
          /\ \A k \in DOMAIN entries :
                entries[k].is_inline =
                    (ParaText(doc, entries[k].start_para) = InlineText)
    /\ (created_files # <<>> /\ JustCreated.is_inline) =>
          /\ JustSaved[2] = [op |-> "clone",
                             src |-> BodyIndex(JustCreated.start_para),
                             text |-> InlineText]
          /\ \A k \in 3..Len(JustSaved) :
                JustSaved[k].src > BodyIndex(JustCreated.start_para)
          /\ Range(JustCreated) # {} =>
                JustSaved[3].src = BodyIndex(JustCreated.start_para + 1)

\* A file with content was just created for an inline Section.
C9_Witness ==
    /\ created_files # <<>>
    /\ JustCreated.is_inline
    /\ Len(JustSaved) > 2

-----------------------------------------------------------------------------
\* The Chapter markers before timeline index idx that were met while the
\* current unit number was n.
ChaptersUnder(idx, n) == {k \in Before(idx, "chapter") : UnitNumAt(k) = n}

\* C10, for the entries under a recognised Unit numeral: the chapter number
\* is at least 1 and is the number of Chapter markers met so far under the
\* entry's unit number, and the chapter text is that of a Chapter marker
\* that follows the last Unit marker.
C10_ChapterOfUnit ==
    pc = "parsed" =>
        \A k \in DOMAIN entries :
            LET e == entries[k]
                idx == MarkerOf(e)
            IN  e.unit_num >= 1 =>
                  /\ e.chapter_num >= 1
                  /\ e.chapter_num = Cardinality(ChaptersUnder(idx, e.unit_num))
                  /\ SetMax(Before(idx, "chapter")) > SetMax(Before(idx, "unit"))

====
